---- MODULE Spec2Model ----
(***************************************************************************)
(* CorePoint board analyzer (src/app.py): card extraction from an exported *)
(* board document, the four report tables built from the cards, and the    *)
(* analyze/download request handlers around them.                          *)
(*                                                                         *)
(* Text is modelled as a sequence of one-character strings, so that the    *)
(* two regular expressions, strptime, int() and the case-insensitive       *)
(* substring test work on characters as they do in the program.  Python's  *)
(* None is the empty sequence and a present value v is <<v>>.              *)
(***************************************************************************)
EXTENDS Integers, Sequences, FiniteSets, TLC

None == <<>>
Some(v) == <<v>>

(* ---------------------------------------------------------------- text *)
LowerCs ==
  <<"a","b","c","d","e","f","g","h","i","j","k","l","m","n","o","p","q","r","s","t","u","v","w","x","y","z">>
UpperCs ==
  <<"A","B","C","D","E","F","G","H","I","J","K","L","M","N","O","P","Q","R","S","T","U","V","W","X","Y","Z">>
Digits ==
  <<"0","1","2","3","4","5","6","7","8","9">>
UpperSet == {UpperCs[i] : i \in DOMAIN UpperCs}
DigitSet == {Digits[i] : i \in DOMAIN Digits}
\* \s of the re module, restricted to the ASCII whitespace of the alphabet
SpaceSet == {" ", "\t", "\n", "\r"}

\* str.lower() on one character
LowerOf == [c \in UpperSet |-> LowerCs[CHOOSE i \in DOMAIN UpperCs : UpperCs[i] = c]]
ToLower(c) == IF c \in UpperSet THEN LowerOf[c] ELSE c
\* str.lower()
Lower(s) == [i \in 1..Len(s) |-> ToLower(s[i])]

DigitVal(c) == (CHOOSE i \in DOMAIN Digits : Digits[i] = c) - 1

\* int(s) for a non-empty string of decimal digits
RECURSIVE NumVal(_)
NumVal(s) ==
  IF s = <<>> THEN 0
  ELSE NumVal(SubSeq(s, 1, Len(s) - 1)) * 10 + DigitVal(s[Len(s)])

\* `needle in hay` for Python strings
Contains(hay, needle) ==
  \/ needle = <<>>
  \/ \E i \in 1..(Len(hay) - Len(needle) + 1) :
       /\ hay[i] = needle[1]
       /\ SubSeq(hay, i, i + Len(needle) - 1) = needle

\* first index at or after i that is past the end of s or holds a character
\* outside C: the end of a greedy run of a character class
RunEnd(s, i, C) ==
  CHOOSE j \in i..(Len(s) + 1) :
    /\ \A k \in i..(j - 1) : s[k] \in C
    /\ (j = Len(s) + 1 \/ s[j] \notin C)

\* str.strip()
Strip(s) ==
  LET keep == {i \in 1..Len(s) : s[i] \notin SpaceSet}
  IN  IF keep = {} THEN <<>>
      ELSE SubSeq(s, CHOOSE i \in keep : \A j \in keep : i <= j,
                     CHOOSE i \in keep : \A j \in keep : i >= j)

\* sep.join(parts)
RECURSIVE Join(_, _)
Join(parts, sep) ==
  IF parts = <<>> THEN <<>>
  ELSE IF Len(parts) = 1 THEN parts[1]
  ELSE parts[1] \o sep \o Join(Tail(parts), sep)

(* ------------------------------------------------------- configuration *)

\* the won column left out of the excluded set
ExcludedWithoutWon ==
  { <<"C","a","n","c","e","l","e","d">>,
    <<"N","e","w"," ","P","a","r","t","s"," ","R","e","q","u","e","s","t">> }
EXCLUDED_COLUMNS_FOR_AGE ==
  { <<"C","o","m","p","l","e","t","e","d">>,
    <<"C","a","n","c","e","l","e","d">>,
    <<"N","e","w"," ","P","a","r","t","s"," ","R","e","q","u","e","s","t">> }
REQUESTED_LANES ==
  << <<"R","e","c","e","i","p","t"," ","C","o","n","f","i","r","m","e","d"," ","<","7"," ","d","a","y","s">>,
     <<"A","g","i","n","g"," ",">","7"," ","D","a","y","s">>,
     <<"S","t","a","l","e"," ",">","1","4"," ","D","a","y","s">>,
     <<"A","s","s","i","g","n","e","d"," ","t","o"," ","D","e","p","a","r","t","m","e","n","t">>,
     <<"P","a","r","t","s"," ","O","r","d","e","r","e","d">>,
     <<"A","r","r","i","v","e","d","/","I","n","-","H","a","n","d">>,
     <<"C","o","n","t","a","c","t","e","d">>,
     <<"C","u","s","t","o","m","e","r"," ","U","n","r","e","a","c","h","a","b","l","e">>,
     <<"S","c","h","e","d","u","l","e","d">> >>
FOCUSED_LABELS ==
  << <<"D","e","m","a","n","d"," ","R","e","p","a","i","r">>,
     <<"I","n","s","t","a","l","l">>,
     <<"D","i","s","p","a","t","c","h">>,
     <<"N","O","T"," ","C","O","O","L","I","N","G","/","H","E","A","T","I","N","G">>,
     <<"W","a","r","r","a","n","t","y">>,
     <<"C","o","m","f","o","r","t"," ","S","h","i","e","l","d"," ","W","a","r","r","a","n","t","y">> >>
ALL_LABELS ==
  << <<"B","a","c","k","o","r","d","e","r","e","d">>,
     <<"W","a","r","r","a","n","t","y">>,
     <<"E","s","c","a","l","a","t","i","o","n">>,
     <<"P","r","e","p","a","i","d"," ","S","e","r","v","i","c","e">>,
     <<"C","O","S","T","C","O"," ","E","S","C","A","L","A","T","I","O","N">>,
     <<"D","e","m","a","n","d"," ","R","e","p","a","i","r">>,
     <<"1","s","t"," ","Y","e","a","r"," ","W","a","r","r","a","n","t","y">>,
     <<"I","n","s","t","a","l","l">>,
     <<"C","o","m","f","o","r","t"," ","S","h","i","e","l","d"," ","W","a","r","r","a","n","t","y">>,
     <<"R","e","c","a","l","l">>,
     <<"S","c","h","e","d","u","l","e"," ","R","e","t","u","r","n"," ","V","i","s","i","t">>,
     <<"E","l","e","c","t","r","i","c","a","l">>,
     <<"D","u","c","t"," ","C","l","e","a","n","i","n","g">>,
     <<"S","e","n","i","o","r"," ","T","e","c","h"," ","C","a","l","l","b","a","c","k">>,
     <<"C","o","m","m","e","r","c","i","a","l">>,
     <<"P","o","s","s","i","b","l","e"," ","P","a","y","m","e","n","t"," ","I","s","s","u","e">>,
     <<"R","e","p","l","a","c","e","m","e","n","t"," ","O","p","p">>,
     <<"M","a","n","a","g","e","r"," ","V","i","s","i","t">>,
     <<"D","a","m","a","g","e"," ","C","l","a","i","m">>,
     <<"N","O","T"," ","C","O","O","L","I","N","G","/","H","E","A","T","I","N","G">>,
     <<"M","u","l","t","i","p","l","e"," ","S","y","s","t","e","m","s">>,
     <<"M","i","s","s","i","n","g"," ","Q","u","o","t","e">>,
     <<"R","E","A","D","Y"," ","T","O"," ","S","C","H","E","D","U","L","E">>,
     <<"M","i","s","s","i","n","g"," ","P","a","r","t","s">>,
     <<"U","R","G","E","N","T">>,
     <<"D","i","s","p","a","t","c","h">>,
     <<"I","S","R"," ","-"," ","S","e","r","v","i","c","e">>,
     <<"A","g","i","n","g"," ","C","a","r","d">>,
     <<"I","n"," ","S","e","r","v","i","c","e"," ","R","e","c","o","v","e","r","y"," ","-"," ","S","t","a","l","e">>,
     <<"C","a","l","l"," ","C","u","s","t","o","m","e","r">>,
     <<"C","h","e","c","k"," ","W","a","r","r","a","n","t","y">>,
     <<"P","l","u","m","b","i","n","g">>,
     <<"T","r","u","c","k"," ","S","t","o","c","k">>,
     <<"M","u","l","t","i","p","l","e"," ","P","a","r","t","s"," ","R","e","q","u","e","s","t">> >>
WON_COLUMN == <<"C","o","m","p","l","e","t","e","d">>
LOST_COLUMN == <<"C","a","n","c","e","l","e","d">>
RECEIVED == <<"r","e","c","e","i","v","e","d">>
QUOTED_PRICE == <<"q","u","o","t","e","d"," ","p","r","i","c","e">>

(* ------------------------------------------------------- field parsers *)
Min(S) == CHOOSE x \in S : \A y \in S : x <= y

\* a literal of a re.IGNORECASE pattern (given in lower case) at position i
LiteralAt(s, i, lit) ==
  /\ i + Len(lit) - 1 <= Len(s)
  /\ Lower(SubSeq(s, i, i + Len(lit) - 1)) = lit

\* DATE_PAT matched with "Received" at position i: group 1, or None.  The
\* character classes that follow one another are disjoint, so each greedy
\* quantifier ends where its run of characters ends: [:\s]+ takes the whole
\* run, \d{1,2} needs a run of one or two digits before "/", and \d{2,4}
\* takes up to four digits of a run of at least two.
DateMatchAt(s, i) ==
  LET p1 == i + Len(RECEIVED)
      p2 == RunEnd(s, p1, {":"} \cup SpaceSet)
      p3 == RunEnd(s, p2, DigitSet)
      p4 == RunEnd(s, p3 + 1, DigitSet)
      p5 == RunEnd(s, p4 + 1, DigitSet)
      ylen == IF p5 - (p4 + 1) > 4 THEN 4 ELSE p5 - (p4 + 1)
  IN  IF /\ LiteralAt(s, i, RECEIVED)
         /\ p2 > p1
         /\ p3 - p2 \in 1..2
         /\ p3 <= Len(s) /\ s[p3] = "/"
         /\ p4 - (p3 + 1) \in 1..2
         /\ p4 <= Len(s) /\ s[p4] = "/"
         /\ p5 - (p4 + 1) >= 2
      THEN Some(SubSeq(s, p2, p4 + ylen))
      ELSE None

\* DATE_PAT.search(text): group 1 of the leftmost match, or None
DATE_PAT(text) ==
  LET hits == {i \in 1..Len(text) : DateMatchAt(text, i) # None}
  IN  IF hits = {} THEN None ELSE DateMatchAt(text, Min(hits))

\* PRICE_PAT matched with "Quoted Price" at position i: group 1, or None
PriceMatchAt(s, i) ==
  LET p1 == i + Len(QUOTED_PRICE)
      p2 == RunEnd(s, p1, SpaceSet)
      p3 == RunEnd(s, p2, {"$", ":"})
      p4 == RunEnd(s, p3, SpaceSet)
      p5 == RunEnd(s, p4, DigitSet \cup {","})
  IN  IF LiteralAt(s, i, QUOTED_PRICE) /\ p5 > p4
      THEN Some(SubSeq(s, p4, p5 - 1))
      ELSE None

\* PRICE_PAT.search(text): group 1 of the leftmost match, or None
PRICE_PAT(text) ==
  LET hits == {i \in 1..Len(text) : PriceMatchAt(text, i) # None}
  IN  IF hits = {} THEN None ELSE PriceMatchAt(text, Min(hits))

\* str.split(sep)
RECURSIVE Split(_, _)
Split(s, sep) ==
  LET at == {i \in 1..Len(s) : s[i] = sep}
  IN  IF at = {} THEN <<s>>
      ELSE <<SubSeq(s, 1, Min(at) - 1)>> \o Split(SubSeq(s, Min(at) + 1, Len(s)), sep)

AllDigits(f) == f # <<>> /\ \A i \in 1..Len(f) : f[i] \in DigitSet

IsLeap(y) == y % 4 = 0 /\ (y % 100 # 0 \/ y % 400 = 0)

DaysInMonth(y, m) ==
  IF m = 2 THEN (IF IsLeap(y) THEN 29 ELSE 28)
  ELSE IF m \in {4, 6, 9, 11} THEN 30 ELSE 31

\* date.toordinal(): days since 0001-01-01, that day being 1
RECURSIVE DaysBeforeMonth(_, _)
DaysBeforeMonth(y, m) ==
  IF m = 1 THEN 0 ELSE DaysBeforeMonth(y, m - 1) + DaysInMonth(y, m - 1)

ToOrdinal(dt) ==
  LET y1 == dt.year - 1
  IN  y1 * 365 + (y1 \div 4) - (y1 \div 100) + (y1 \div 400)
        + DaysBeforeMonth(dt.year, dt.month) + dt.day

\* the field a strptime directive accepts, and its value
DirectiveOk(dir, f) ==
  /\ AllDigits(f)
  /\ CASE dir = "m" -> Len(f) \in 1..2 /\ NumVal(f) \in 1..12
       [] dir = "d" -> Len(f) \in 1..2 /\ NumVal(f) \in 1..31
       [] dir = "y" -> Len(f) = 2
       [] dir = "Y" -> Len(f) = 4

DirectiveVal(dir, f) ==
  IF dir = "y" THEN (IF NumVal(f) <= 68 THEN 2000 + NumVal(f) ELSE 1900 + NumVal(f))
  ELSE NumVal(f)

\* datetime.strptime(s, fmt).date() for a format of three directives joined
\* by one separator character: the date, or None where strptime raises
\* ValueError (no match, unconverted data, or a day the month does not have)
Strptime(s, fmt) ==
  LET fs == Split(s, fmt.sep)
      val(dir) == DirectiveVal(dir, fs[CHOOSE k \in 1..3 : fmt.dirs[k] = dir])
      y == IF "y" \in {fmt.dirs[k] : k \in 1..3} THEN val("y") ELSE val("Y")
  IN  IF /\ Len(fs) = 3
         /\ \A k \in 1..3 : DirectiveOk(fmt.dirs[k], fs[k])
         /\ y >= 1
         /\ val("d") <= DaysInMonth(y, val("m"))
      THEN Some([year |-> y, month |-> val("m"), day |-> val("d")])
      ELSE None

\* the formats of parse_date, in the order it tries them
DATE_FORMATS ==
  << [dirs |-> <<"m", "d", "y">>, sep |-> "/"],
     [dirs |-> <<"m", "d", "Y">>, sep |-> "/"],
     [dirs |-> <<"Y", "m", "d">>, sep |-> "-"] >>

parse_date(s) ==
  LET ok == {k \in DOMAIN DATE_FORMATS : Strptime(s, DATE_FORMATS[k]) # None}
  IN  IF ok = {} THEN None ELSE Strptime(s, DATE_FORMATS[Min(ok)])

\* int(pm.group(1).replace(",", "")): int() raises ValueError on ""
StripCommas(g) == SelectSeq(g, LAMBDA c : c # ",")
IntRaises(g) == StripCommas(g) = <<>>
IntOf(g) == NumVal(StripCommas(g))

(* ------------------------------------------------------------ document *)
(* BeautifulSoup's tree of the uploaded bytes: the nodes in document order, *)
(* each with the index of its parent (0: the document itself).  kind is    *)
(* the tag name, or "text" for a string; cls is the set of classes of a    *)
(* tag's class attribute; str is the characters of a string node.          *)
OUTER_PREFIX == <<"_","o","u","t","e","r","W","r","a","p","p","e","r","_">>
HEADER_PREFIX == <<"_","h","e","a","d","e","r","N","a","m","e","_">>
CARD_CLASS == <<"c","a","r","d">>

\* str.startswith
StartsWith(c, prefix) ==
  Len(c) >= Len(prefix) /\ SubSeq(c, 1, Len(prefix)) = prefix

\* the members of a set of node indices, in document order
RECURSIVE InOrder(_)
InOrder(S) == IF S = {} THEN <<>> ELSE <<Min(S)>> \o InOrder(S \ {Min(S)})

RECURSIVE IsDescendant(_, _, _)
IsDescendant(doc, j, a) ==
  /\ doc[j].parent >= a
  /\ (doc[j].parent = a \/ IsDescendant(doc, doc[j].parent, a))

Descendants(doc, a) == {j \in DOMAIN doc : j > a /\ IsDescendant(doc, j, a)}

\* a div one of whose classes starts with the prefix
\* (class_=lambda c: c and c.startswith(prefix))
DivWithPrefix(doc, i, prefix) ==
  doc[i].kind = "div" /\ \E c \in doc[i].cls : StartsWith(c, prefix)

\* soup.find_all("div", class_=...startswith("_outerWrapper_"))
FindOuterWrappers(doc) ==
  InOrder({i \in DOMAIN doc : DivWithPrefix(doc, i, OUTER_PREFIX)})

\* outer.find("div", class_=...startswith("_headerName_")): the first, or None
FindHeader(doc, outer) ==
  LET hs == {i \in Descendants(doc, outer) : DivWithPrefix(doc, i, HEADER_PREFIX)}
  IN  IF hs = {} THEN None ELSE Some(Min(hs))

\* outer.select("div.card")
SelectCards(doc, outer) ==
  InOrder({i \in Descendants(doc, outer) :
             doc[i].kind = "div" /\ CARD_CLASS \in doc[i].cls})

\* outer.find_all("div", recursive=True)
FindAllDivs(doc, outer) ==
  InOrder({i \in Descendants(doc, outer) : doc[i].kind = "div"})

\* outer.select("div.card") or outer.find_all("div", recursive=True)
CandidateCards(doc, outer) ==
  IF SelectCards(doc, outer) # <<>> THEN SelectCards(doc, outer)
  ELSE FindAllDivs(doc, outer)

\* the string nodes under a node that are not empty once stripped
TextNodes(doc, a) ==
  {j \in Descendants(doc, a) : doc[j].kind = "text" /\ Strip(doc[j].str) # <<>>}

\* tag.get_text(" ", strip=True)
get_text(doc, a) ==
  LET ns == InOrder(TextNodes(doc, a))
  IN  Join([k \in 1..Len(ns) |-> Strip(doc[ns[k]].str)], <<" ">>)

(* ---------------------------------------------------------- extraction *)
\* the age of a card: (today - d).days, on the reference date it is given
AgeOn(ref, d) == ref - ToOrdinal(d)

\* lines 61-75, one pass of the loop over the candidate cards: the candidate
\* is skipped ("skip"), appended to out ("card"), or int() raises ("raise")
CardOutcome(doc, card, column, ref) ==
  LET text == get_text(doc, card)
      m == DATE_PAT(text)
      d == parse_date(m[1])
      pm == PRICE_PAT(text)
  IN  IF text = <<>> \/ m = None THEN [kind |-> "skip", card |-> None]
      ELSE IF d = None THEN [kind |-> "skip", card |-> None]
      ELSE IF pm # None /\ IntRaises(pm[1]) THEN [kind |-> "raise", card |-> None]
      ELSE [kind |-> "card",
            card |-> Some([column |-> column, text |-> text, date |-> d[1],
                           age |-> AgeOn(ref, d[1]),
                           price |-> IF pm = None THEN None ELSE Some(IntOf(pm[1]))])]

(* --------------------------------------------------------- aggregation *)
(* An average is kept in hundredths: 150 is 1.5.                           *)
RECURSIVE Sum(_)
Sum(xs) == IF xs = <<>> THEN 0 ELSE Head(xs) + Sum(Tail(xs))


\* the mean cut to two decimals instead of rounded
Round2Floor(total, n) == (100 * total) \div n
\* round(statistics.mean(xs), 2) of n integers with the given total.  The
\* mean is exact; round() goes to the nearest hundredth.  A mean half-way
\* between two hundredths needs at least 8 values and is then a multiple of
\* 1/8, which a float holds exactly and round() takes to the even hundredth.
Round2(total, n) ==
  LET q == (100 * total) \div n
      r == (100 * total) % n
  IN  IF 2 * r < n THEN q
      ELSE IF 2 * r > n THEN q + 1
      ELSE IF q % 2 = 0 THEN q ELSE q + 1

avg(xs) == IF xs # <<>> THEN Round2(Sum(xs), Len(xs)) ELSE 0

Ages(cs) == [i \in 1..Len(cs) |-> cs[i].age]

\* [c for c in cards if c["column"] not in EXCLUDED_COLUMNS_FOR_AGE]
Active(cards) ==
  SelectSeq(cards, LAMBDA c : c.column \notin EXCLUDED_COLUMNS_FOR_AGE)


\* the label matched with its case as written
LabelAgesCaseSensitive(active, lbl) ==
  Ages(SelectSeq(active, LAMBDA c : Contains(c.text, lbl)))
\* [c["age"] for c in active if lbl.lower() in c["text"].lower()]
LabelAges(active, lbl) ==
  Ages(SelectSeq(active, LAMBDA c : Contains(Lower(c.text), Lower(lbl))))

\* [c["age"] for c in cards if c["column"] == lane]
LaneAges(cards, lane) == Ages(SelectSeq(cards, LAMBDA c : c.column = lane))


\* a price of 0 taken for no price (if c["price"])
PricesTruthy(cs) ==
  LET priced == SelectSeq(cs, LAMBDA c : c.price # None /\ c.price # Some(0))
  IN  [i \in 1..Len(priced) |-> priced[i].price[1]]
\* [c["price"] for c in cs if c["price"] is not None]
Prices(cs) ==
  LET priced == SelectSeq(cs, LAMBDA c : c.price # None)
  IN  [i \in 1..Len(priced) |-> priced[i].price[1]]

InColumn(cards, col) == SelectSeq(cards, LAMBDA c : c.column = col)

ALL_CARDS_SCOPE == <<"A","l","l"," ","c","a","r","d","s"," ","(","e","x","c","l","u","d","i","n","g"," ","C","o","m","p","l","e","t","e","d","/","C","a","n","c","e","l","e","d",")">>

ScopeRows(cards) ==
  << [Scope |-> ALL_CARDS_SCOPE,
      Count |-> Len(Active(cards)),
      AverageAge |-> avg(Ages(Active(cards)))] >>
  \o [k \in 1..Len(FOCUSED_LABELS) |->
        LET ages == LabelAges(Active(cards), FOCUSED_LABELS[k])
        IN  [Scope |-> FOCUSED_LABELS[k],
             Count |-> Len(ages),
             AverageAge |-> IF ages # <<>> THEN avg(ages) ELSE 0]]


\* a row for every configured lane, matched or not
LaneRowsAll(cards) ==
  [k \in 1..Len(REQUESTED_LANES) |->
     [Lane |-> REQUESTED_LANES[k],
      Count |-> Len(LaneAges(cards, REQUESTED_LANES[k])),
      AverageAge |-> avg(LaneAges(cards, REQUESTED_LANES[k]))]]
LaneRows(cards) ==
  LET lanes == SelectSeq(REQUESTED_LANES, LAMBDA lane : LaneAges(cards, lane) # <<>>)
  IN  [k \in 1..Len(lanes) |->
        [Lane |-> lanes[k],
         Count |-> Len(LaneAges(cards, lanes[k])),
         AverageAge |-> avg(LaneAges(cards, lanes[k]))]]

QuotedStats(cards) ==
  LET active_prices == Prices(Active(cards))
      completed_prices == Prices(InColumn(cards, WON_COLUMN))
      canceled_prices == Prices(InColumn(cards, LOST_COLUMN))
  IN  [TotalValueCount |-> Len(active_prices),
       TotalValue |-> IF active_prices # <<>> THEN Sum(active_prices) ELSE 0,
       AverageValue |-> IF active_prices # <<>> THEN avg(active_prices) ELSE 0,
       TotalWonCount |-> Len(completed_prices),
       TotalWon |-> IF completed_prices # <<>> THEN Sum(completed_prices) ELSE 0,
       AverageWon |-> IF completed_prices # <<>> THEN avg(completed_prices) ELSE 0,
       TotalLostCount |-> Len(canceled_prices),
       TotalLost |-> IF canceled_prices # <<>> THEN Sum(canceled_prices) ELSE 0,
       AverageLost |-> IF canceled_prices # <<>> THEN avg(canceled_prices) ELSE 0]

AllLabelRows(cards) ==
  [k \in 1..Len(ALL_LABELS) |->
     LET ages == LabelAges(Active(cards), ALL_LABELS[k])
     IN  [Label |-> ALL_LABELS[k],
          Count |-> Len(ages),
          AverageAge |-> IF ages # <<>> THEN avg(ages) ELSE 0]]

\* the sheets of the workbook and the tables of the summary
build_report(cards) ==
  [scope |-> ScopeRows(cards),
   lanes |-> LaneRows(cards),
   quoted |-> QuotedStats(cards),
   labels |-> AllLabelRows(cards)]


\* the reference date read again from the clock for every card
RefDateClock(captured, clock) == clock
\* the reference date a card is aged against: today, read once (line 49)
RefDate(captured, clock) == captured

\* extract_cards as a function of the document and the reference date.
\* Candidates lists what the two loops visit, in order: for every wrapper
\* with a header, each of its candidate cards with the column's name.
RECURSIVE Candidates(_, _)
Candidates(doc, os) ==
  IF os = <<>> THEN <<>>
  ELSE (IF FindHeader(doc, Head(os)) = None THEN <<>>
        ELSE [k \in 1..Len(CandidateCards(doc, Head(os))) |->
                [column |-> get_text(doc, FindHeader(doc, Head(os))[1]),
                 card |-> CandidateCards(doc, Head(os))[k]]])
       \o Candidates(doc, Tail(os))

\* raised: int() raised on some candidate, and nothing is returned;
\* out: otherwise the records of the candidates that were not skipped
extract_cards(doc, ref) ==
  LET cs == Candidates(doc, FindOuterWrappers(doc))
      os == [k \in 1..Len(cs) |-> CardOutcome(doc, cs[k].card, cs[k].column, ref)]
      made == SelectSeq(os, LAMBDA o : o.kind = "card")
  IN  IF \E k \in 1..Len(os) : os[k].kind = "raise"
      THEN [raised |-> TRUE, out |-> <<>>]
      ELSE [raised |-> FALSE, out |-> [k \in 1..Len(made) |-> made[k].card[1]]]

(* -------------------------------------------------------------- inputs *)
MaxTicks == 1
MaxCards == 3
MaxRequests == 3

\* the clock when a behaviour starts: 2023-01-12
Day0 == ToOrdinal([year |-> 2023, month |-> 1, day |-> 12])

Div(parent, cls) == [parent |-> parent, kind |-> "div", cls |-> cls, str |-> <<>>]
Span(parent) == [parent |-> parent, kind |-> "span", cls |-> {}, str |-> <<>>]
Text(parent, s) == [parent |-> parent, kind |-> "text", cls |-> {}, str |-> s]

WRAP == {<<"_","o","u","t","e","r","W","r","a","p","p","e","r","_","1","q","2","w">>}
HEAD == {<<"_","h","e","a","d","e","r","N","a","m","e","_","9","k">>, <<"t","i","t","l","e">>}
CARD == {CARD_CLASS}

Scheduled == <<"S","c","h","e","d","u","l","e","d">>
Backlog == <<"B","a","c","k","l","o","g">>
NewPartsRequest == <<"N","e","w"," ","P","a","r","t","s"," ","R","e","q","u","e","s","t">>

DateFrags ==
  { <<"R","e","c","e","i","v","e","d",":"," ","0","1","/","0","2","/","2","3">>,
    <<"r","e","c","e","i","v","e","d"," ","1","/","9","/","2","0","2","3">>,
    <<"R","e","c","e","i","v","e","d",":"," ","2","0","2","3","-","0","1","-","0","2">>,
    <<"R","e","c","e","i","v","e","d",":"," ","2","/","3","0","/","2","3">>,
    <<"R","e","c","e","i","v","e","d",":"," ","n","o","t","-","a","-","d","a","t","e">>,
    <<"D","i","s","p","a","t","c","h">> }
PriceFrags ==
  { <<>>,
    <<" ","Q","u","o","t","e","d"," ","P","r","i","c","e"," ","$","1",",","2","0","0">>,
    <<" ","Q","u","o","t","e","d"," ","P","r","i","c","e"," ",",">>,
    <<" ","q","u","o","t","e","d"," ","p","r","i","c","e",":"," ","5">> }
CardTexts == {d \o q : d \in DateFrags, q \in PriceFrags}
FewTexts ==
  { <<"R","e","c","e","i","v","e","d",":"," ","0","1","/","1","0","/","2","3"," ","Q","u","o","t","e","d"," ","P","r","i","c","e"," ","$","1",",","2","0","0">>,
    <<"I","n","s","t","a","l","l"," ","R","E","C","E","I","V","E","D"," ","1","/","5","/","2","0","2","3"," "," ","Q","u","o","t","e","d"," ","P","r","i","c","e"," ",",">>,
    <<"S","c","h","e","d","u","l","e"," ","R","e","t","u","r","n"," ","V","i","s","i","t">>,
    <<" ","\n">> }

\* one column whose cards are its children, marked class="card" or unmarked
FlatDoc(col, cls, t1, t2) ==
  << Div(0, WRAP), Div(1, HEAD), Text(2, col),
     Div(1, cls), Text(4, t1), Div(1, cls), Text(6, t2) >>
\* one column with a card inside a card
NestedDoc(col, cls, t1, t2) ==
  << Div(0, WRAP), Div(1, HEAD), Text(2, col),
     Div(1, cls), Text(4, t1), Div(4, cls), Text(6, t2) >>
\* a column wrapper inside a column wrapper
NestedWrapperDoc(col1, col2, t1) ==
  << Div(0, WRAP), Div(1, HEAD), Text(2, col1),
     Div(1, WRAP), Div(4, HEAD), Text(5, col2), Div(4, CARD), Text(7, t1) >>
\* a wrapper without a header
NoHeaderDoc(t1) == << Div(0, WRAP), Div(1, CARD), Text(2, t1) >>
TwoColumnDoc(col1, col2, t1, t2) ==
  << Div(0, WRAP), Div(1, HEAD), Text(2, col1), Div(1, CARD), Text(4, t1),
     Div(0, WRAP), Div(6, HEAD), Text(7, col2), Div(6, CARD), Text(9, t2) >>
\* a card whose text is spread over two spans
SpansDoc(col, t1, t2) ==
  << Div(0, WRAP), Div(1, HEAD), Text(2, col),
     Div(1, CARD), Span(4), Text(5, t1), Span(4), Text(7, t2) >>

Docs ==
  {<<>>}
  \cup {FlatDoc(Scheduled, CARD, t1, t2) : t1 \in CardTexts, t2 \in FewTexts}
  \cup {FlatDoc(Scheduled, {}, t1, t2) : t1 \in FewTexts, t2 \in FewTexts}
  \cup {NestedDoc(Scheduled, cls, t1, t2) : cls \in {CARD, {}}, t1 \in FewTexts, t2 \in FewTexts}
  \cup {NestedWrapperDoc(Scheduled, WON_COLUMN, t1) : t1 \in FewTexts}
  \cup {NoHeaderDoc(t1) : t1 \in FewTexts}
  \cup {TwoColumnDoc(WON_COLUMN, Scheduled, t1, t2) : t1 \in FewTexts, t2 \in FewTexts}
  \cup {SpansDoc(Backlog, <<"R","e","c","e","i","v","e","d",":">>, <<"0","1","/","0","2","/","2","3"," ">>)}

(* --------------------------------------------------------------- state *)
VARIABLES
  html,           \* the document handed to extract_cards
  now,            \* the clock: the ordinal of the current UTC date
  pc,             \* where the pass over the document stands
  today,          \* extract_cards: the reference date, None before it is read
  outers,         \* extract_cards: the column wrappers still to visit
  column,         \* extract_cards: the name of the column being visited
  cards,          \* extract_cards: the candidate cards still to visit
  out,            \* extract_cards: the Card records so far
  srcs,           \* for each record of out, the node it was made from
  report,         \* the tables build_report returned, None before
  first,          \* the reference date and tables of the first pass, once a
                  \* second pass over the same document has been started
  last_workbook,  \* _last_workbook
  response,       \* the answer to the last request
  requests        \* the requests answered so far

pass == <<html, pc, today, outers, column, cards, out, srcs, report, first>>
web == <<last_workbook, response, requests>>
vars == <<html, now, pc, today, outers, column, cards, out, srcs, report, first,
          last_workbook, response, requests>>

(* ------------------------------------------- one pass over a document *)
Init ==
  /\ html \in Docs
  /\ now = Day0
  /\ pc = "start"
  /\ today = None
  /\ outers = <<>> /\ column = <<>> /\ cards = <<>>
  /\ out = <<>> /\ srcs = <<>>
  /\ report = None /\ first = None
  /\ last_workbook = None /\ response = None /\ requests = 0

\* the date changes while a pass or the server runs
Tick ==
  /\ pc \in {"start", "columns", "cards", "idle"}
  /\ now < Day0 + MaxTicks
  /\ now' = now + 1
  /\ UNCHANGED <<pass, web>>

\* lines 48-52: parse, read the date once, find the column wrappers
Begin ==
  /\ pc = "start"
  /\ today' = Some(now)
  /\ out' = <<>> /\ srcs' = <<>>
  /\ outers' = FindOuterWrappers(html)
  /\ pc' = "columns"
  /\ UNCHANGED <<html, now, column, cards, report, first, web>>

\* lines 52-58: the next wrapper; one without a header is passed over
NextColumn ==
  /\ pc = "columns" /\ outers # <<>>
  /\ LET outer == Head(outers)
         header == FindHeader(html, outer)
     IN  IF header = None
         THEN UNCHANGED <<column, cards, pc>>
         ELSE /\ column' = get_text(html, header[1])
              /\ cards' = CandidateCards(html, outer)
              /\ pc' = IF CandidateCards(html, outer) # <<>> THEN "cards" ELSE "columns"
  /\ outers' = Tail(outers)
  /\ UNCHANGED <<html, now, today, out, srcs, report, first, web>>

\* lines 60-75: the next candidate card of the column
NextCard ==
  /\ pc = "cards"
  /\ LET o == CardOutcome(html, Head(cards), column, RefDate(today[1], now))
         rest == IF Tail(cards) = <<>> THEN "columns" ELSE "cards"
     IN  CASE o.kind = "raise" ->
                /\ pc' = "raised"
                /\ UNCHANGED <<cards, out, srcs>>
           [] o.kind = "skip" ->
                /\ pc' = rest
                /\ cards' = Tail(cards)
                /\ UNCHANGED <<out, srcs>>
           [] o.kind = "card" ->
                /\ pc' = rest
                /\ cards' = Tail(cards)
                /\ out' = Append(out, o.card[1])
                /\ srcs' = Append(srcs, Head(cards))
  /\ UNCHANGED <<html, now, today, outers, column, report, first, web>>

\* line 76
Return ==
  /\ pc = "columns" /\ outers = <<>>
  /\ pc' = "extracted"
  /\ UNCHANGED <<html, now, today, outers, column, cards, out, srcs, report, first, web>>

\* lines 81-136, called with the cards extract_cards returned
BuildReport ==
  /\ pc = "extracted"
  /\ report' = Some(build_report(out))
  /\ pc' = "done"
  /\ UNCHANGED <<html, now, today, outers, column, cards, out, srcs, first, web>>

\* the same bytes are handed in a second time
Again ==
  /\ pc = "done" /\ first = None
  /\ first' = Some([today |-> today[1], report |-> report[1]])
  /\ pc' = "start"
  /\ today' = None /\ report' = None
  /\ outers' = <<>> /\ column' = <<>> /\ cards' = <<>>
  /\ out' = <<>> /\ srcs' = <<>>
  /\ UNCHANGED <<html, now, web>>

Next == Tick \/ Begin \/ NextColumn \/ NextCard \/ Return \/ BuildReport \/ Again

Spec == Init /\ [][Next]_vars

(* ------------------------------------- build_report on any card sequence *)
AggTexts ==
  << <<"D","e","m","a","n","d"," ","R","e","p","a","i","r"," ","i","n","s","t","a","l","l"," ","R","e","c","e","i","v","e","d",":"," ","1","/","1","1","/","2","3"," ","Q","u","o","t","e","d"," ","P","r","i","c","e"," ","$","1",",","2","0","0">>,
     <<"R","e","c","e","i","v","e","d",":"," ","1","/","1","3","/","2","3"," ","c","o","m","f","o","r","t"," ","s","h","i","e","l","d"," ","W","A","R","R","A","N","T","Y">>,
     <<"R","e","c","e","i","v","e","d",":"," ","0","1","/","0","2","/","2","3"," ","Q","u","o","t","e","d"," ","P","r","i","c","e",":"," ","5">>,
     <<"R","e","c","e","i","v","e","d",":"," ","1","/","1","2","/","2","0","2","3"," ","q","u","o","t","e","d"," ","p","r","i","c","e"," ","0">> >>
ScheduledLower == <<"s","c","h","e","d","u","l","e","d">>

\* the record lines 61-75 make of a card with this text in this column
CardOf(col, text) ==
  CardOutcome(<< Div(0, CARD), Text(1, text) >>, 1, col, Day0).card[1]

CardPool ==
  { CardOf(Scheduled, AggTexts[1]), CardOf(Scheduled, AggTexts[2]),
    CardOf(Backlog, AggTexts[3]), CardOf(ScheduledLower, AggTexts[2]),
    CardOf(WON_COLUMN, AggTexts[1]), CardOf(WON_COLUMN, AggTexts[3]),
    CardOf(LOST_COLUMN, AggTexts[4]), CardOf(NewPartsRequest, AggTexts[1]) }

InitAgg ==
  /\ html = <<>>
  /\ now = Day0
  /\ pc = "extracted"
  /\ today = Some(Day0)
  /\ outers = <<>> /\ column = <<>> /\ cards = <<>>
  /\ out \in UNION {[1..n -> CardPool] : n \in 0..MaxCards}
  /\ srcs = <<>>
  /\ report = None /\ first = None
  /\ last_workbook = None /\ response = None /\ requests = 0

NextAgg == BuildReport

SpecAgg == InitAgg /\ [][NextAgg]_vars

(* ---------------------------------------------------- request handlers *)
WebDocs ==
  { <<>>,
    NoHeaderDoc(<<"R","e","c","e","i","v","e","d",":"," ","0","1","/","1","0","/","2","3"," ","Q","u","o","t","e","d"," ","P","r","i","c","e"," ","$","1",",","2","0","0">>),
    FlatDoc(Scheduled, CARD, <<"R","e","c","e","i","v","e","d",":"," ","0","1","/","0","2","/","2","3">>, <<"R","e","c","e","i","v","e","d",":"," ","0","1","/","1","0","/","2","3"," ","Q","u","o","t","e","d"," ","P","r","i","c","e"," ","$","1",",","2","0","0">>),
    FlatDoc(Scheduled, CARD, <<"R","e","c","e","i","v","e","d",":"," ","0","1","/","0","2","/","2","3">>, <<"I","n","s","t","a","l","l"," ","R","E","C","E","I","V","E","D"," ","1","/","5","/","2","0","2","3"," "," ","Q","u","o","t","e","d"," ","P","r","i","c","e"," ",",">>) }

InitWeb ==
  /\ html = <<>>
  /\ now = Day0
  /\ pc = "idle"
  /\ today = None
  /\ outers = <<>> /\ column = <<>> /\ cards = <<>>
  /\ out = <<>> /\ srcs = <<>>
  /\ report = None /\ first = None
  /\ last_workbook = None /\ response = None /\ requests = 0

Answer(req, status, kind, tables) ==
  Some([req |-> req, status |-> status, kind |-> kind, tables |-> tables])

\* POST /analyze, lines 215-227.  file is None when the form carries no file.
\* report keeps the tables of the last analyze that returned its page.
Analyze(file) ==
  /\ pc = "idle" /\ requests < MaxRequests
  /\ requests' = requests + 1
  /\ IF file = None
     THEN /\ response' = Answer("analyze", 400, "no_file", None)
          /\ UNCHANGED <<html, report, last_workbook>>
     ELSE LET r == extract_cards(file[1], RefDate(now, now))
          IN  /\ html' = file[1]
              /\ IF r.raised
                 THEN /\ response' = Answer("analyze", 500, "error", None)
                      /\ UNCHANGED <<report, last_workbook>>
                 ELSE /\ report' = Some(build_report(r.out))
                      /\ last_workbook' =
                           Some([sheets |-> build_report(r.out), closed |-> FALSE])
                      /\ response' = Answer("analyze", 200, "page", Some(build_report(r.out)))
  /\ UNCHANGED <<now, pc, today, outers, column, cards, out, srcs, first>>

\* GET /download, lines 229-240.  send_file hands the BytesIO to the response,
\* and the response closes it once the server has sent it; seek(0) on a
\* closed BytesIO raises ValueError.
Download ==
  /\ pc = "idle" /\ requests < MaxRequests
  /\ requests' = requests + 1
  /\ IF last_workbook = None
     THEN /\ response' = Answer("download", 400, "no_report", None)
          /\ UNCHANGED last_workbook
     ELSE IF last_workbook[1].closed
     THEN /\ response' = Answer("download", 500, "error", None)
          /\ UNCHANGED last_workbook
     ELSE /\ response' = Answer("download", 200, "file", Some(last_workbook[1].sheets))
          /\ last_workbook' = Some([last_workbook[1] EXCEPT !.closed = TRUE])
  /\ UNCHANGED <<html, now, pc, today, outers, column, cards, out, srcs, report, first>>

NextWeb == Tick \/ (\E file \in {None} \cup {Some(d) : d \in WebDocs} : Analyze(file)) \/ Download

SpecWeb == InitWeb /\ [][NextWeb]_vars

(* -------------------------------------------------------------- claims *)
\* the columns the claims name as excluded, and the won and lost columns
ClaimExcluded ==
  { <<"C","o","m","p","l","e","t","e","d">>,
    <<"C","a","n","c","e","l","e","d">>,
    <<"N","e","w"," ","P","a","r","t","s"," ","R","e","q","u","e","s","t">> }
ClaimWon == <<"C","o","m","p","l","e","t","e","d">>
ClaimLost == <<"C","a","n","c","e","l","e","d">>

RECURSIVE SumOver(_, _)
SumOver(S, f) ==
  IF S = {} THEN 0
  ELSE LET x == CHOOSE y \in S : TRUE IN f[x] + SumOver(S \ {x}, f)

Abs(x) == IF x < 0 THEN -x ELSE x

\* h hundredths is total/n rounded to two decimals
IsRounded2(h, total, n) == 2 * Abs(100 * total - h * n) <= n

AgeOf == [i \in DOMAIN out |-> out[i].age]
PriceOf == [i \in DOMAIN out |-> IF out[i].price = None THEN 0 ELSE out[i].price[1]]
NotExcluded == {i \in DOMAIN out : out[i].column \notin ClaimExcluded}
Priced(S) == {i \in S : out[i].price # None}

\* lbl occurs in text when the case of letters is ignored
MatchesCI(text, lbl) ==
  \E off \in 0..(Len(text) - Len(lbl)) :
    \A k \in 1..Len(lbl) : ToLower(text[off + k]) = ToLower(lbl[k])

\* a row of count 0 and average 0
ZeroRow(row) == row.Count = 0 /\ row.AverageAge = 0

Labelled(lbl) == {i \in NotExcluded : MatchesCI(out[i].text, lbl)}

\* a row's count and average are those of the cards S
RowIs(row, S) ==
  /\ row.Count = Cardinality(S)
  /\ IF S = {} THEN row.AverageAge = 0
     ELSE IsRounded2(row.AverageAge, SumOver(S, AgeOf), Cardinality(S))

\* the maximal run of characters that are not whitespace, from position i
TokenFrom(text, i) ==
  SubSeq(text, i,
         (CHOOSE j \in i..(Len(text) + 1) :
            /\ \A k \in i..(j - 1) : text[k] \notin SpaceSet
            /\ (j = Len(text) + 1 \/ text[j] \in SpaceSet)) - 1)

\* the dates that stand in text as "Received", separators, and a token in one
\* of the three formats
DatesAfterMarker(text) ==
  { Strptime(TokenFrom(text, RunEnd(text, i + Len(RECEIVED), {":"} \cup SpaceSet)),
             DATE_FORMATS[f])[1] :
      <<i, f>> \in
        { <<i, f>> \in (1..Len(text)) \X DOMAIN DATE_FORMATS :
            /\ LiteralAt(text, i, RECEIVED)
            /\ RunEnd(text, i + Len(RECEIVED), {":"} \cup SpaceSet) > i + Len(RECEIVED)
            /\ Strptime(TokenFrom(text, RunEnd(text, i + Len(RECEIVED), {":"} \cup SpaceSet)),
                        DATE_FORMATS[f]) # None } }

\* C1: extract_cards returns a Card sequence for every document and never
\* raises; a card with a malformed date or price is skipped or gets no price.
C1_ExtractionNeverRaises == pc # "raised"

\* C2: a candidate card with non-empty text (whose price field does not stop
\* the pass) is emitted exactly when its text holds the "Received" marker
\* followed by a date token in one of the three accepted formats, and then
\* with that date as its receivedDate.
C2_EmittedIffAcceptedDate ==
  [][(pc = "cards" /\ cards' = Tail(cards) /\ get_text(html, Head(cards)) # <<>>)
       => /\ (Len(out') = Len(out) + 1) <=> (DatesAfterMarker(get_text(html, Head(cards))) # {})
          /\ (Len(out') = Len(out) + 1) =>
               out'[Len(out')].date \in DatesAfterMarker(get_text(html, Head(cards)))]_vars

\* C8: within a pass every card is aged against the one reference date read
\* at its start; the cards are still those of that date when the tables are
\* built; and a second pass over the same document with the same reference
\* date yields the same tables.
C8_OneReferenceDateIdempotent ==
  /\ today # None => \A i \in DOMAIN out : out[i].age = today[1] - ToOrdinal(out[i].date)
  /\ pc = "done" => out = extract_cards(html, today[1]).out
  /\ (pc = "done" /\ first # None /\ first[1].today = today[1])
       => report[1] = first[1].report

C8_Witness ==
  /\ pc = "done" /\ first # None /\ first[1].today = today[1]
  /\ Len(out) >= 2 /\ now > today[1]

\* C10: no part of the document is counted twice: no two Card records are
\* made from containers that share text.
C10_NoPartCountedTwice ==
  \A i, j \in DOMAIN srcs :
    i < j => TextNodes(html, srcs[i]) \cap TextNodes(html, srcs[j]) = {}

\* C3: row 0 of the Scope table counts the cards outside the excluded columns
\* and gives the mean of their ages rounded to two decimals, 0 for no card.
C3_ScopeRowZero ==
  pc = "done" => RowIs(report[1].scope[1], NotExcluded)

C3_Witness ==
  /\ pc = "done" /\ Len(out) = 3
  /\ \E i \in DOMAIN out : out[i].age < 0
  /\ report[1].scope[1].Count = 3
  /\ report[1].scope[1].AverageAge = 267

\* C4: the row of every focused label and of every label of the All Labels
\* table counts the cards outside the excluded columns whose text holds the
\* label, case ignored, each label on its own; a label of both lists has the
\* same count and average in both tables.
C4_LabelRowsCountMatches ==
  pc = "done" =>
    /\ \A k \in DOMAIN FOCUSED_LABELS :
         RowIs(report[1].scope[k + 1], Labelled(FOCUSED_LABELS[k]))
    /\ \A k \in DOMAIN ALL_LABELS :
         RowIs(report[1].labels[k], Labelled(ALL_LABELS[k]))
    /\ \A j \in DOMAIN FOCUSED_LABELS, k \in DOMAIN ALL_LABELS :
         FOCUSED_LABELS[j] = ALL_LABELS[k] =>
           /\ report[1].scope[j + 1].Count = report[1].labels[k].Count
           /\ report[1].scope[j + 1].AverageAge = report[1].labels[k].AverageAge

C4_Witness ==
  /\ pc = "done" /\ Len(out) = 1
  /\ \E j, k \in DOMAIN FOCUSED_LABELS :
       j # k /\ report[1].scope[j + 1].Count = 1 /\ report[1].scope[k + 1].Count = 1
  /\ \E k \in DOMAIN FOCUSED_LABELS :
       report[1].scope[k + 1].Count = 1 /\ ~Contains(out[1].text, FOCUSED_LABELS[k])

\* C5: one row per configured label in both label tables, in configured
\* order, with count 0 and average 0 for a label no card matches; a Lane row
\* for a configured lane exactly when a card's column equals the lane, so no
\* Lane row has count 0.
C5_RowsPerLabelAndLane ==
  pc = "done" =>
    /\ Len(report[1].labels) = Len(ALL_LABELS)
    /\ \A k \in DOMAIN ALL_LABELS :
         /\ report[1].labels[k].Label = ALL_LABELS[k]
         /\ (ZeroRow(report[1].labels[k]) \/ Labelled(ALL_LABELS[k]) # {})
    /\ Len(report[1].scope) = 1 + Len(FOCUSED_LABELS)
    /\ \A k \in DOMAIN FOCUSED_LABELS :
         /\ report[1].scope[k + 1].Scope = FOCUSED_LABELS[k]
         /\ (ZeroRow(report[1].scope[k + 1]) \/ Labelled(FOCUSED_LABELS[k]) # {})
    /\ \A n \in DOMAIN REQUESTED_LANES :
         (\E r \in DOMAIN report[1].lanes : report[1].lanes[r].Lane = REQUESTED_LANES[n])
           <=> (\E i \in DOMAIN out : out[i].column = REQUESTED_LANES[n])
    /\ \A r \in DOMAIN report[1].lanes : report[1].lanes[r].Count > 0

C5_Witness ==
  /\ pc = "done" /\ Len(out) = 2
  /\ \E i \in DOMAIN out : out[i].column = ScheduledLower
  /\ Len(report[1].lanes) = 1 /\ report[1].lanes[1].Count = 1
  /\ \E k \in DOMAIN ALL_LABELS : report[1].labels[k].Count = 0

\* count, sum and mean are those of the priced cards among S
PriceTotalsAre(count, total, mean, S) ==
  /\ count = Cardinality(Priced(S))
  /\ total = SumOver(Priced(S), PriceOf)
  /\ IF Priced(S) = {} THEN mean = 0
     ELSE IsRounded2(mean, total, count)

\* C6: for the active, the won and the lost population the Price-summary row
\* gives the number of priced cards, the exact sum of their prices and the
\* mean rounded to two decimals, all three 0 for an empty population.
C6_PriceSummaryConsistent ==
  pc = "done" =>
    LET q == report[1].quoted
    IN  /\ PriceTotalsAre(q.TotalValueCount, q.TotalValue, q.AverageValue, NotExcluded)
        /\ PriceTotalsAre(q.TotalWonCount, q.TotalWon, q.AverageWon,
                          {i \in DOMAIN out : out[i].column = ClaimWon})
        /\ PriceTotalsAre(q.TotalLostCount, q.TotalLost, q.AverageLost,
                          {i \in DOMAIN out : out[i].column = ClaimLost})

C6_Witness ==
  /\ pc = "done"
  /\ report[1].quoted.TotalWonCount = 3
  /\ report[1].quoted.TotalWon = 2405
  /\ report[1].quoted.AverageWon = 80167
  /\ report[1].quoted.TotalValueCount = 0 /\ report[1].quoted.AverageValue = 0

\* C7: the active, won and lost populations are pairwise disjoint: every
\* priced card is counted in at most one of the three totals, a card of the
\* won or lost column is not counted in Scope row 0, and what the three
\* totals and row 0 leave out are the cards of the third excluded column.
C7_PopulationsDisjoint ==
  pc = "done" =>
    LET q == report[1].quoted
        all == DOMAIN out
        rest == {i \in all : out[i].column \in ClaimExcluded \ {ClaimWon, ClaimLost}}
    IN  /\ q.TotalValueCount + q.TotalWonCount + q.TotalLostCount
             = Cardinality(Priced(all \ rest))
        /\ q.TotalValue + q.TotalWon + q.TotalLost = SumOver(Priced(all \ rest), PriceOf)
        /\ report[1].scope[1].Count
             + Cardinality({i \in all : out[i].column \in {ClaimWon, ClaimLost}})
             + Cardinality(rest) = Len(out)

C7_Witness ==
  /\ pc = "done" /\ Len(out) = 3
  /\ report[1].quoted.TotalValueCount = 1
  /\ report[1].quoted.TotalWonCount = 1
  /\ report[1].quoted.TotalLostCount = 1
  /\ report[1].scope[1].Count = 1

\* C9: a download answers "no report" exactly when no analyze has completed
\* before it, and otherwise returns the workbook of the most recent analyze
\* that completed.
C9_DownloadServesLatest ==
  (response # None /\ response[1].req = "download") =>
    /\ (response[1].kind = "no_report") <=> (report = None)
    /\ report # None =>
         response[1].kind = "file" /\ response[1].tables = report

====
